---- MODULE Spec2Model ----
(***************************************************************************)
(* Model of the job execution pipeline of web.py: the Flask handler        *)
(* swap_faces_endpoint, its helpers update_job_status, get_file_extension, *)
(* is_video_file and create_gif_preview, and the three things it talks to: *)
(* the Appwrite document store (job records), the Appwrite blob store      *)
(* (source, target and result buckets) and the local filesystem (the       *)
(* uploads/source, uploads/target and uploads/output directories).         *)
(*                                                                         *)
(* One action is one external call of the handler (a store call, a         *)
(* subprocess, a filesystem operation) together with the local computation *)
(* that follows it up to the next external call.  Every external call has  *)
(* the outcomes the code distinguishes: it returns, or it raises the       *)
(* exception classes the handler catches.                                  *)
(*                                                                         *)
(* Strings that the code concatenates (job ids, uuid tokens, extensions,   *)
(* staged file names) are sequences of one-character strings, so that the  *)
(* f-strings of the code are concatenations here and not tuples.           *)
(***************************************************************************)
EXTENDS Integers, Sequences, FiniteSets, TLC

\* Python None, and every value that "not x" is true of, per type
None == "None"
NoId == 0
NoStr == <<>>
NoPath == [dir |-> "", name |-> <<>>]

(***************************************************************************)
(* Bounds of the model.                                                    *)
(***************************************************************************)
\* number of requests the server receives in a behaviour; request n is handled
\* by handler execution n
MaxRequests == 2
\* length of uuid.uuid4().hex (32 in the program), scaled down
TokenLen == 1
\* number of failures of the environment in a behaviour of concurrent requests
ConcFaults == 1

Runs == 1..MaxRequests

(***************************************************************************)
(* Strings.                                                                *)
(***************************************************************************)
HexDigits == <<"0", "1", "2", "3", "4", "5", "6", "7", "8", "9", "a", "b", "c", "d", "e", "f">>
Token(n) == [i \in 1..TokenLen |-> HexDigits[n]]
Tok0 == Token(1)
Tok1 == Token(2)
\* the values uuid.uuid4().hex is drawn from
Tokens == {Tok0, Tok1}
\* the same, when the values drawn by different handler executions differ
OwnTokens == [r \in Runs |-> {Token(r)}]

\* str.lower() on the characters the model uses
LowerChar(c) ==
    CASE c = "M" -> "m"
      [] c = "P" -> "p"
      [] OTHER -> c

Lower(s) == [i \in 1..Len(s) |-> LowerChar(s[i])]

\* os.path.splitext(p)[1] for a p without directory separator: the suffix
\* that starts at the last dot, unless only dots precede that dot
SplitExt(p) ==
    LET dots == {i \in 1..Len(p) : p[i] = "."}
    IN  IF dots = {} THEN <<>>
        ELSE LET d == CHOOSE i \in dots : \A j \in dots : j <= i
             IN  IF \E k \in 1..(d - 1) : p[k] # "."
                 THEN SubSeq(p, d, Len(p))
                 ELSE <<>>

get_file_extension(filename) ==
    IF filename = <<>> \/ ~(\E i \in 1..Len(filename) : filename[i] = ".")
    THEN <<>>
    ELSE Lower(SplitExt(filename))

video_extensions == { <<".", "m", "p", "4">>, <<".", "m", "o", "v">> }

is_video_file(file_name) == get_file_extension(file_name) \in video_extensions

(***************************************************************************)
(* Staged file names and paths (lines 45-49, 202-205, 231-232, 274).       *)
(***************************************************************************)
SOURCE_DIR == "uploads/source"
TARGET_DIR == "uploads/target"
OUTPUT_DIR == "uploads/output"

\* Path / name
PathOf(dir, name) == [dir |-> dir, name |-> name]

\* f"{job_id}_source_{uuid.uuid4().hex}{source_ext}"
source_filename_local(job_id, token, source_ext) ==
    job_id \o <<"_", "s", "o", "u", "r", "c", "e", "_">> \o token \o source_ext

\* f"{job_id}_target_{uuid.uuid4().hex}{target_ext}"
target_filename_local(job_id, token, target_ext) ==
    job_id \o <<"_", "t", "a", "r", "g", "e", "t", "_">> \o token \o target_ext

\* f"result_{job_id}_{uuid.uuid4().hex}{target_ext}"
output_filename(job_id, token, target_ext) ==
    <<"r", "e", "s", "u", "l", "t", "_">> \o job_id \o <<"_">> \o token \o target_ext

\* f"preview_{job_id}_{uuid.uuid4().hex}.gif"
preview_filename(job_id, token) ==
    <<"p", "r", "e", "v", "i", "e", "w", "_">> \o job_id \o <<"_">> \o token
        \o <<".", "g", "i", "f">>

(***************************************************************************)
(* The inputs: the job records the external producer created, the assets   *)
(* they reference, and the requests the server may receive.                *)
(***************************************************************************)
ENDPOINT_SECRET == "secret"
Secrets == {ENDPOINT_SECRET, "wrong", None}

\* a job whose target is a video
JV == <<"V">>
\* two jobs whose ids are distinct; the id of the second one starts with the
\* id of the first one
JA == <<"J">>
JB == JA \o <<"_">> \o Tok0 \o <<".", "x">>
\* a job whose record lacks mediaId, and one whose record lacks faceId
JM == <<"Q">>
JF == <<"F">>
\* a job id with no record in the collection
JU == <<"U">>

JobIds == {JV, JA, JB, JM, JF, JU}

\* original file names in the source bucket and in the target bucket, by file id
SourceNames == (1 :> <<"f", ".", "P">>)
TargetNames ==
    (2 :> <<"v", ".", "M", "P", "4">>) @@
    (3 :> (<<"m", ".", "x", "_">> \o Tok1)) @@
    (4 :> <<"n">>)

InputIds == DOMAIN SourceNames \cup DOMAIN TargetNames

NewRecord(face, media) ==
    [faceId |-> face, mediaId |-> media, status |-> "pending",
     resultId |-> NoId, mediaPreviewId |-> NoId]

InitialDocs ==
    (JV :> NewRecord(1, 2)) @@
    (JA :> NewRecord(1, 3)) @@
    (JB :> NewRecord(1, 4)) @@
    (JM :> NewRecord(1, NoId)) @@
    (JF :> NewRecord(NoId, 2))

\* request.get_json(): raises, or returns a falsy value, or returns an object
\* whose 'secret' and 'jobId' may be missing
Objects == [secret : Secrets, jobId : JobIds \cup {NoStr}]
Payloads ==
    {[kind |-> "unparseable", secret |-> None, jobId |-> NoStr],
     [kind |-> "empty", secret |-> None, jobId |-> NoStr]}
    \cup {[kind |-> "object", secret |-> o.secret, jobId |-> o.jobId] : o \in Objects}

(***************************************************************************)
(* State.                                                                  *)
(***************************************************************************)
VARIABLES
    docs,       \* the jobs collection: job id -> record
    blobs,      \* the result bucket: blobs[i] is the request that created file FirstFree+i
    files,      \* the paths that exist on the local filesystem
    served,     \* number of requests received so far
    faultsLeft, \* how many more failures the environment may produce (NoLimit: any)
    uuid4,      \* the values the uuid4 calls of each handler execution may return
    run         \* the local variables of each handler execution

vars == <<docs, blobs, files, served, faultsLeft, uuid4, run>>

NoData == [kind |-> "none", secret |-> None, jobId |-> NoStr]

NoResp == [code |-> 0, error |-> "", resultId |-> NoId, previewId |-> NoId, details |-> ""]

\* the locals of swap_faces_endpoint, and what the run did:
\* created = the staged paths it made exist, log = its external calls in order
IdleRun ==
    [pc |-> "idle", reqno |-> 0, data |-> NoData,
     job_id |-> NoStr, job_doc |-> NewRecord(NoId, NoId),
     face_id |-> NoId, media_id |-> NoId,
     source_ext |-> NoStr, target_ext |-> NoStr,
     face_path |-> NoPath, media_path |-> NoPath,
     output_path |-> NoPath, preview_path |-> NoPath,
     result_id |-> NoId, preview_id |-> NoId,
     resp |-> NoResp, created |-> {}, log |-> <<>>]

NoLimit == 0 - 1

Start(limit, tokens) ==
    /\ docs = InitialDocs
    /\ blobs = <<>>
    /\ files = {}
    /\ served = 0
    /\ faultsLeft = limit
    /\ uuid4 = tokens
    /\ run = [r \in Runs |-> IdleRun]

\* one request, any number of failures of the stores, subprocesses and filesystem
Init == Start(NoLimit, [r \in Runs |-> Tokens])

\* the environment produces n more failures: external calls that raise
Faults(n) ==
    /\ faultsLeft = NoLimit \/ n <= faultsLeft
    /\ faultsLeft' = IF faultsLeft = NoLimit THEN NoLimit ELSE faultsLeft - n

Fails == Faults(1)
Works == Faults(0)

\* an external call: what was called, on what, whether it returned without
\* raising (for a subprocess: with exit code 0), and the text it captured
Call(op, arg, ok) == [op |-> op, arg |-> arg, ok |-> ok, text |-> ""]

Response(code, error) ==
    [code |-> code, error |-> error, resultId |-> NoId, previewId |-> NoId, details |-> ""]

\* the exception classes the handler tells apart
Raised == {"AppwriteException", "Exception"}

(***************************************************************************)
(* update_job_status (lines 67-85): one update_document call whose data is *)
(* the status, plus resultId when a result id is passed; an exception of   *)
(* the call is caught and printed, so a failed write changes nothing.      *)
(***************************************************************************)
\* a status write that also resets the result of the record
update_job_status_reset(d, job, status, result, ok) ==
    IF ~ok \/ job \notin DOMAIN d THEN d
    ELSE [d EXCEPT ![job].status = status, ![job].resultId = NoId,
                   ![job].mediaPreviewId = NoId]

\* a status write that leaves a completed record alone
update_job_status_guarded(d, job, status, result, ok) ==
    IF ~ok \/ job \notin DOMAIN d \/ d[job].status = "completed" THEN d
    ELSE [d EXCEPT ![job].status = status]

update_job_status(d, job, status, result, ok) ==
    IF ~ok \/ job \notin DOMAIN d THEN d
    ELSE IF result # NoId
         THEN [d EXCEPT ![job].status = status, ![job].resultId = result]
         ELSE [d EXCEPT ![job].status = status]

\* a failing exit that returns without the status write
FailSilently(me, at, rsp) ==
    [me EXCEPT !.pc = IF at = "markFailedEarly" THEN "done" ELSE "cleanup", !.resp = rsp]

\* the handler's exits through update_job_status(job_id, 'failed') followed by
\* "return jsonify(...), code" (lines 157-158, 193-194, 223-224, 228-229,
\* 312-313, 317-318, 343-344, 350-351)
Fail(me, at, rsp) == [me EXCEPT !.pc = at, !.resp = rsp]

(***************************************************************************)
(* Lines 118-138: the checks made before anything is fetched.              *)
(* The answer NoResp stands for "go on".                                   *)
(***************************************************************************)
Admission(script_present, data) ==
    IF ~script_present THEN Response(500, "Processing script missing")
    ELSE IF data.kind = "unparseable" THEN Response(400, "Failed to parse JSON payload")
    ELSE IF data.kind = "empty" THEN Response(400, "Invalid JSON payload")
    ELSE IF data.secret = None \/ data.secret # ENDPOINT_SECRET
         THEN Response(401, "Unauthorized")
    ELSE IF data.jobId = NoStr THEN Response(400, "Missing jobId")
    ELSE NoResp

\* a request arrives at an idle handler execution
Receive(r) ==
    /\ run[r].pc = "idle"
    /\ served = r - 1
    /\ \E script_present \in BOOLEAN, data \in Payloads :
         LET rsp == Admission(script_present, data)
             me == [run[r] EXCEPT !.reqno = r, !.data = data]
         IN  run' = [run EXCEPT ![r] =
                        IF rsp.code # 0
                        THEN [me EXCEPT !.pc = "done", !.resp = rsp]
                        ELSE [me EXCEPT !.pc = "fetch", !.job_id = data.jobId]]
    /\ served' = served + 1
    /\ UNCHANGED <<docs, blobs, files, faultsLeft, uuid4>>

\* a check of faceId only
MissingRefsFaceOnly(face, media) == face = NoId

\* line 154: "if not face_id or not media_id"
MissingRefs(face, media) == face = NoId \/ media = NoId

\* a failed fetch that marks the job failed as the later handlers do
FetchFailedMarksJob(me, rsp) == [me EXCEPT !.pc = "markFailedEarly", !.resp = rsp]

\* lines 162-177: the handlers of a failed fetch return at once
FetchFailed(me, rsp) == [me EXCEPT !.pc = "done", !.resp = rsp]

\* lines 144-177: databases.get_document and the reading of the two references
FetchJob(r) ==
    LET me == run[r]
        got == [me EXCEPT !.log = Append(@, Call("get_document", "", TRUE))]
        not == [me EXCEPT !.log = Append(@, Call("get_document", "", FALSE))]
    IN  /\ me.pc = "fetch"
        /\ \/ /\ me.job_id \in DOMAIN docs
              /\ Works
              /\ LET job_doc == docs[me.job_id]
                     face == job_doc.faceId
                     media == job_doc.mediaId
                     here == [got EXCEPT !.job_doc = job_doc,
                                         !.face_id = face, !.media_id = media]
                 IN  run' = [run EXCEPT ![r] =
                        IF MissingRefs(face, media)
                        THEN Fail(here, "markFailedEarly",
                                  Response(400, "Missing faceId or mediaId in job document"))
                        ELSE [here EXCEPT !.pc = "getSourceMeta"]]
           \/ /\ me.job_id \notin DOMAIN docs
              /\ Works
              /\ run' = [run EXCEPT ![r] =
                    FetchFailed(not, Response(404, "Job document not found"))]
           \/ \E e \in Raised :
                Fails /\ run' = [run EXCEPT ![r] =
                    FetchFailed(not,
                        IF e = "AppwriteException"
                        THEN Response(500, "Failed to fetch job details")
                        ELSE Response(500, "Internal server error during job fetch"))]
        /\ UNCHANGED <<docs, blobs, files, served, uuid4>>

\* what the handlers of lines 188-194 and 346-351 answer
MetadataError(e) ==
    IF e = "AppwriteException"
    THEN Response(500, "Failed to get media file details")
    ELSE Response(500, "An internal server error occurred during processing")

\* line 182: storage.get_file(APPWRITE_SOURCE_BUCKET_ID, face_id)
GetSourceMeta(r) ==
    LET me == run[r]
    IN  /\ me.pc = "getSourceMeta"
        /\ \/ /\ me.face_id \in DOMAIN SourceNames
              /\ Works
              /\ run' = [run EXCEPT ![r] =
                    [me EXCEPT !.pc = "getTargetMeta",
                               !.log = Append(@, Call("get_file", "source", TRUE)),
                               !.source_ext = get_file_extension(SourceNames[me.face_id])]]
           \/ \E e \in Raised :
                Fails /\ run' = [run EXCEPT ![r] =
                    Fail([me EXCEPT !.log = Append(@, Call("get_file", "source", FALSE))],
                         "markFailed", MetadataError(e))]
        /\ UNCHANGED <<docs, blobs, files, served, uuid4>>

\* a target metadata read whose failure is ignored
GetTargetMetaUnchecked(r) ==
    LET me == run[r]
    IN  /\ me.pc = "getTargetMeta"
        /\ \E ok \in BOOLEAN :
            /\ IF ok THEN Works ELSE Fails
            /\ run' = [run EXCEPT ![r] =
                  [me EXCEPT !.pc = "markProcessing",
                             !.log = Append(@, Call("get_file", "target", ok)),
                             !.target_ext = IF ok /\ me.media_id \in DOMAIN TargetNames
                                            THEN get_file_extension(TargetNames[me.media_id])
                                            ELSE NoStr]]
        /\ UNCHANGED <<docs, blobs, files, served, uuid4>>

\* lines 183-185: storage.get_file(APPWRITE_TARGET_BUCKET_ID, media_id)
GetTargetMeta(r) ==
    LET me == run[r]
    IN  /\ me.pc = "getTargetMeta"
        /\ \/ /\ me.media_id \in DOMAIN TargetNames
              /\ Works
              /\ run' = [run EXCEPT ![r] =
                    [me EXCEPT !.pc = "markProcessing",
                               !.log = Append(@, Call("get_file", "target", TRUE)),
                               !.target_ext = get_file_extension(TargetNames[me.media_id])]]
           \/ \E e \in Raised :
                Fails /\ run' = [run EXCEPT ![r] =
                    Fail([me EXCEPT !.log = Append(@, Call("get_file", "target", FALSE))],
                         "markFailed", MetadataError(e))]
        /\ UNCHANGED <<docs, blobs, files, served, uuid4>>

\* a run that names its staged files without marking the job processing
MarkProcessingSkipped(r) ==
    LET me == run[r]
    IN  /\ me.pc = "markProcessing"
        /\ \E t1 \in uuid4[r], t2 \in uuid4[r] :
            run' = [run EXCEPT ![r] =
                [me EXCEPT
                    !.pc = "downloadSource",
                    !.face_path = PathOf(SOURCE_DIR,
                        source_filename_local(me.job_id, t1, me.source_ext)),
                    !.media_path = PathOf(TARGET_DIR,
                        target_filename_local(me.job_id, t2, me.target_ext))]]
        /\ UNCHANGED <<docs, blobs, files, served, faultsLeft, uuid4>>

\* a processing write whose failure ends the run
MarkProcessingAborts(r) ==
    LET me == run[r]
    IN  /\ me.pc = "markProcessing"
        /\ \E ok \in BOOLEAN, t1 \in uuid4[r], t2 \in uuid4[r] :
            /\ IF ok THEN Works ELSE Fails
            /\ docs' = update_job_status(docs, me.job_id, "processing", NoId, ok)
            /\ LET here == [me EXCEPT
                        !.log = Append(@, Call("update_document", "processing", ok))]
               IN  run' = [run EXCEPT ![r] =
                     IF ok
                     THEN [here EXCEPT
                            !.pc = "downloadSource",
                            !.face_path = PathOf(SOURCE_DIR,
                                source_filename_local(me.job_id, t1, me.source_ext)),
                            !.media_path = PathOf(TARGET_DIR,
                                target_filename_local(me.job_id, t2, me.target_ext))]
                     ELSE Fail(here, "markFailed",
                               Response(500, "An internal server error occurred during processing"))]
        /\ UNCHANGED <<blobs, files, served, uuid4>>

\* lines 196-205: update_job_status(job_id, 'processing'), then the names of
\* the two staged input files, each with a token of its own
MarkProcessing(r) ==
    LET me == run[r]
    IN  /\ me.pc = "markProcessing"
        /\ \E ok \in BOOLEAN, t1 \in uuid4[r], t2 \in uuid4[r] :
            /\ IF ok THEN Works ELSE Fails
            /\ docs' = update_job_status(docs, me.job_id, "processing", NoId, ok)
            /\ run' = [run EXCEPT ![r] =
                [me EXCEPT
                    !.pc = "downloadSource",
                    !.log = Append(@, Call("update_document", "processing", ok)),
                    !.face_path = PathOf(SOURCE_DIR,
                        source_filename_local(me.job_id, t1, me.source_ext)),
                    !.media_path = PathOf(TARGET_DIR,
                        target_filename_local(me.job_id, t2, me.target_ext))]]
        /\ UNCHANGED <<blobs, files, served, uuid4>>

\* what the handlers of lines 218-229 answer
DownloadError(e) ==
    IF e = "AppwriteException"
    THEN Response(500, "Failed to download media files")
    ELSE Response(500, "Failed to save media files locally")

\* storage.get_file_download followed by open(path, 'wb') and f.write: the
\* download raises, or the local write raises (the file may have been created
\* by then), or the file is there
Download(me, which, path, next) ==
    \/ \E e \in Raised :
         /\ Fails
         /\ run' = [run EXCEPT ![me.r] =
                Fail([me.v EXCEPT !.log = Append(@, Call("get_file_download", which, FALSE))],
                     "markFailed", DownloadError(e))]
         /\ files' = files
    \/ \E made \in BOOLEAN :
         /\ Fails
         /\ run' = [run EXCEPT ![me.r] =
                Fail([me.v EXCEPT
                        !.log = @ \o <<Call("get_file_download", which, TRUE),
                                       Call("write", which, FALSE)>>,
                        !.created = IF made THEN @ \cup {path} ELSE @],
                     "markFailed", DownloadError("Exception"))]
         /\ files' = IF made THEN files \cup {path} ELSE files
    \/ /\ Works
       /\ run' = [run EXCEPT ![me.r] =
                [next EXCEPT
                    !.log = @ \o <<Call("get_file_download", which, TRUE),
                                   Call("write", which, TRUE)>>,
                    !.created = @ \cup {path}]]
       /\ files' = files \cup {path}

\* lines 208-211
DownloadSource(r) ==
    LET me == run[r]
    IN  /\ me.pc = "downloadSource"
        /\ Download([r |-> r, v |-> me], "source", me.face_path,
                    [me EXCEPT !.pc = "downloadTarget"])
        /\ UNCHANGED <<docs, blobs, served, uuid4>>

\* lines 213-216, then lines 231-232: the name of the output file
DownloadTarget(r) ==
    LET me == run[r]
    IN  /\ me.pc = "downloadTarget"
        /\ \E t \in uuid4[r] :
             Download([r |-> r, v |-> me], "target", me.media_path,
                      [me EXCEPT !.pc = "runEngine",
                                 !.output_path = PathOf(OUTPUT_DIR,
                                     output_filename(me.job_id, t, me.target_ext))])
        /\ UNCHANGED <<docs, blobs, served, uuid4>>

\* a success test on the exit code alone
EngineSucceededByExitCode(returncode, exists) == returncode = 0

\* line 255: "if process.returncode == 0 and output_path.exists()"
EngineSucceeded(returncode, exists) == returncode = 0 /\ exists

\* line 338: process.stderr or "No stderr output."
stderr_output(stderr) == IF stderr = "" THEN "No stderr output." ELSE stderr

\* lines 234-255 and 320-344: subprocess.run of the engine.  It raises (the
\* handler of lines 346-351 answers), or it returns with an exit code and its
\* captured stderr, having written the output file or not
RunEngine(r) ==
    LET me == run[r]
        out == me.output_path
    IN  /\ me.pc = "runEngine"
        /\ \E made \in BOOLEAN :
            /\ files' = IF made THEN files \cup {out} ELSE files
            /\ LET exists == IF out \in files' THEN "output" ELSE "no output"
                   ran(what, ok, stderr) == [me EXCEPT
                        !.log = Append(@, [Call("engine", what, ok) EXCEPT !.text = stderr]),
                        !.created = IF made THEN @ \cup {out} ELSE @]
               IN  \/ Fails /\ run' = [run EXCEPT ![r] =
                        Fail(ran("raised", FALSE, ""), "markFailed",
                             Response(500, "An internal server error occurred during processing"))]
                   \/ \E returncode \in {0, 1}, stderr \in {"", "diagnostic"} :
                        Works /\ run' = [run EXCEPT ![r] =
                            IF EngineSucceeded(returncode, out \in files')
                            THEN [ran(exists, returncode = 0, stderr)
                                    EXCEPT !.pc = "uploadResult"]
                            ELSE Fail(ran(exists, returncode = 0, stderr), "markFailed",
                                      [Response(500, "Face swapping process failed")
                                         EXCEPT !.details = stderr_output(stderr)])]
        /\ UNCHANGED <<docs, blobs, served, uuid4>>

\* ID.unique(): the store mints an id that no file has
FreshId == Cardinality(InputIds) + Len(blobs) + 1

\* what the handlers of lines 307-318 answer
UploadError == Response(500, "Failed to upload result file")

\* line 272: "if is_video_file(output_path) and shutil.which('ffmpeg')"
WantsPreview(path, ffmpeg) == is_video_file(path.name) /\ ffmpeg

\* lines 259-274: InputFile.from_path and storage.create_file of the output,
\* then the decision whether a preview is made, and its file name
UploadResult(r) ==
    LET me == run[r]
    IN  /\ me.pc = "uploadResult"
        /\ \/ /\ blobs' = blobs
              /\ Fails
              /\ run' = [run EXCEPT ![r] =
                    Fail([me EXCEPT !.log = Append(@, Call("create_file", "result", FALSE))],
                         "markFailed", UploadError)]
           \/ /\ blobs' = Append(blobs, me.reqno)
              /\ Works
              /\ \E ffmpeg \in BOOLEAN, t \in uuid4[r] :
                   LET here == [me EXCEPT
                            !.log = Append(@, Call("create_file", "result", TRUE)),
                            !.result_id = FreshId]
                   IN  run' = [run EXCEPT ![r] =
                        IF WantsPreview(me.output_path, ffmpeg)
                        THEN [here EXCEPT !.pc = "createPreview",
                                !.preview_path = PathOf(OUTPUT_DIR,
                                    preview_filename(me.job_id, t))]
                        ELSE [here EXCEPT !.pc = "writeCompleted"]]
        /\ UNCHANGED <<docs, files, served, uuid4>>

\* lines 97-114 and 275, 290-291: subprocess.run of ffmpeg.  create_gif_preview
\* returns "returncode == 0"; it catches nothing, so an exception of
\* subprocess.run leaves it and is caught at line 314
create_gif_preview(r) ==
    LET me == run[r]
        gif == me.preview_path
    IN  /\ me.pc = "createPreview"
        /\ \/ /\ files' = files \cup {gif}
              /\ Works
              /\ run' = [run EXCEPT ![r] =
                    [me EXCEPT !.pc = "uploadPreview",
                               !.log = Append(@, Call("ffmpeg", "returned", TRUE)),
                               !.created = @ \cup {gif}]]
           \/ \E made \in BOOLEAN, raised \in BOOLEAN :
                LET here == [me EXCEPT
                        !.log = Append(@, Call("ffmpeg",
                                    IF raised THEN "raised" ELSE "returned", FALSE)),
                        !.created = IF made THEN @ \cup {gif} ELSE @]
                IN  /\ files' = IF made THEN files \cup {gif} ELSE files
                    /\ IF raised THEN Fails ELSE Works
                    /\ run' = [run EXCEPT ![r] =
                          IF raised
                          THEN Fail(here, "markFailed", UploadError)
                          ELSE [here EXCEPT !.pc = "writeCompleted"]]
        /\ UNCHANGED <<docs, blobs, served, uuid4>>

\* lines 276-289: the upload of the preview.  After preview_id is assigned,
\* line 287 reads files_to_delete, a local that is only assigned in the finally
\* block: the UnboundLocalError is caught at line 288, preview_id stays set
\* and preview_path is on no cleanup list
UploadPreview(r) ==
    LET me == run[r]
    IN  /\ me.pc = "uploadPreview"
        /\ \/ /\ blobs' = blobs
              /\ Fails
              /\ run' = [run EXCEPT ![r] =
                    [me EXCEPT !.pc = "writeCompleted",
                               !.log = Append(@, Call("create_file", "preview", FALSE))]]
           \/ /\ blobs' = Append(blobs, me.reqno)
              /\ Works
              /\ run' = [run EXCEPT ![r] =
                    [me EXCEPT !.pc = "writeCompleted",
                               !.log = Append(@, Call("create_file", "preview", TRUE)),
                               !.preview_id = FreshId]]
        /\ UNCHANGED <<docs, files, served, uuid4>>

\* a completed update that writes the wrong identifier
update_data_face(d, job, result, preview) ==
    [d EXCEPT ![job].status = "completed", ![job].resultId = d[job].faceId]

\* lines 293-295: the data of the completed update
update_data(d, job, result, preview) ==
    IF preview # NoId
    THEN [d EXCEPT ![job].status = "completed", ![job].resultId = result,
                   ![job].mediaPreviewId = preview]
    ELSE [d EXCEPT ![job].status = "completed", ![job].resultId = result]

\* line 305: the success response
Success(result, preview) ==
    [code |-> 200, error |-> "", resultId |-> result, previewId |-> preview, details |-> ""]

\* a completed write whose failure is swallowed as update_job_status does
WriteCompletedBestEffort(r) ==
    LET me == run[r]
    IN  /\ me.pc = "writeCompleted"
        /\ \E ok \in BOOLEAN :
            /\ IF ok THEN Works ELSE Fails
            /\ docs' = IF ok THEN update_data(docs, me.job_id, me.result_id, me.preview_id)
                       ELSE docs
            /\ run' = [run EXCEPT ![r] =
                  [me EXCEPT !.pc = "cleanup",
                             !.log = Append(@, Call("update_document", "completed", ok)),
                             !.resp = Success(me.result_id, me.preview_id)]]
        /\ UNCHANGED <<blobs, files, served, uuid4>>

\* a completed write that is followed by the failed write of a failing exit
WriteCompletedThenFailed(r) ==
    LET me == run[r]
    IN  /\ me.pc = "writeCompleted"
        /\ docs' = update_data(docs, me.job_id, me.result_id, me.preview_id)
        /\ Works
        /\ run' = [run EXCEPT ![r] =
              [me EXCEPT !.pc = "markFailed",
                         !.log = Append(@, Call("update_document", "completed", TRUE)),
                         !.resp = Success(me.result_id, me.preview_id)]]
        /\ UNCHANGED <<blobs, files, served, uuid4>>

\* lines 293-318: databases.update_document with the completed data, called
\* directly: an exception reaches the handlers of lines 307-318
WriteCompleted(r) ==
    LET me == run[r]
    IN  /\ me.pc = "writeCompleted"
        /\ \/ /\ docs' = update_data(docs, me.job_id, me.result_id, me.preview_id)
              /\ Works
              /\ run' = [run EXCEPT ![r] =
                    [me EXCEPT !.pc = "cleanup",
                               !.log = Append(@, Call("update_document", "completed", TRUE)),
                               !.resp = Success(me.result_id, me.preview_id)]]
           \/ /\ docs' = docs
              /\ Fails
              /\ run' = [run EXCEPT ![r] =
                    Fail([me EXCEPT !.log = Append(@, Call("update_document", "completed", FALSE))],
                         "markFailed", UploadError)]
        /\ UNCHANGED <<blobs, files, served, uuid4>>

\* a failing exit that returns without entering the finally block
MarkFailedReturns(r) ==
    LET me == run[r]
    IN  /\ me.pc \in {"markFailed", "markFailedEarly"}
        /\ \E ok \in BOOLEAN :
            /\ IF ok THEN Works ELSE Fails
            /\ docs' = update_job_status(docs, me.job_id, "failed", NoId, ok)
            /\ run' = [run EXCEPT ![r] =
                [me EXCEPT !.pc = "done",
                           !.log = Append(@, Call("update_document", "failed", ok))]]
        /\ UNCHANGED <<blobs, files, served, uuid4>>

\* update_job_status(job_id, 'failed') of a failing exit.  The exit of lines
\* 157-158 is outside the try of line 179, so no finally block follows it
MarkFailed(r) ==
    LET me == run[r]
    IN  /\ me.pc \in {"markFailed", "markFailedEarly"}
        /\ \E ok \in BOOLEAN :
            /\ IF ok THEN Works ELSE Fails
            /\ docs' = update_job_status(docs, me.job_id, "failed", NoId, ok)
            /\ run' = [run EXCEPT ![r] =
                [me EXCEPT !.pc = IF me.pc = "markFailedEarly" THEN "done" ELSE "cleanup",
                           !.log = Append(@, Call("update_document", "failed", ok))]]
        /\ UNCHANGED <<blobs, files, served, uuid4>>

\* line 355
files_to_delete(me) == <<me.face_path, me.media_path, me.output_path>>

\* a cleanup loop that is left at the first unlink that raises
CleanupStopsAtError(r) ==
    LET me == run[r]
        list == <<me.face_path, me.media_path, me.output_path>>
        there == {i \in 1..Len(list) : list[i] # NoPath /\ list[i] \in files}
    IN  /\ me.pc = "cleanup"
        /\ \E failing \in SUBSET there :
            LET tried == {i \in there : \A j \in failing : i <= j}
            IN  /\ Faults(Cardinality(failing \cap tried))
                /\ files' = files \ {list[i] : i \in tried \ failing}
                /\ run' = [run EXCEPT ![r] =
                    [me EXCEPT !.pc = "done",
                        !.log = @ \o [k \in 1..Cardinality(tried) |->
                            LET i == CHOOSE i \in tried :
                                        Cardinality({j \in tried : j <= i}) = k
                            IN  Call("unlink", list[i].dir, i \notin failing)]]]
        /\ UNCHANGED <<docs, blobs, served, uuid4>>

\* lines 353-363: the finally block.  Each listed path that is set and exists
\* is unlinked; an OSError of unlink is printed and the loop goes on
Cleanup(r) ==
    LET me == run[r]
        list == files_to_delete(me)
        there == {i \in 1..Len(list) : list[i] # NoPath /\ list[i] \in files}
    IN  /\ me.pc = "cleanup"
        /\ \E failing \in SUBSET there :
            /\ Faults(Cardinality(failing))
            /\ files' = files \ {list[i] : i \in there \ failing}
            /\ run' = [run EXCEPT ![r] =
                [me EXCEPT !.pc = "done",
                    !.log = @ \o [k \in 1..Cardinality(there) |->
                        LET i == CHOOSE i \in there :
                                    Cardinality({j \in there : j <= i}) = k
                        IN  Call("unlink", list[i].dir, i \notin failing)]]]
        /\ UNCHANGED <<docs, blobs, served, uuid4>>

\* the response has been sent; the handler execution is free again
Return(r) ==
    /\ run[r].pc = "done"
    /\ run' = [run EXCEPT ![r] = IdleRun]
    /\ UNCHANGED <<docs, blobs, files, served, faultsLeft, uuid4>>

Step(r) ==
    \/ FetchJob(r)
    \/ GetSourceMeta(r)
    \/ GetTargetMeta(r)
    \/ MarkProcessing(r)
    \/ DownloadSource(r)
    \/ DownloadTarget(r)
    \/ RunEngine(r)
    \/ UploadResult(r)
    \/ create_gif_preview(r)
    \/ UploadPreview(r)
    \/ WriteCompleted(r)
    \/ MarkFailed(r)
    \/ Cleanup(r)
    \/ Return(r)

\* the pipeline run of one request
Next == \E r \in Runs : (served = 0 /\ Receive(r)) \/ Step(r)

Spec == Init /\ [][Next]_vars

\* the pipeline run of one request when every external call returns or raises:
\* the handler execution takes its next step (the handler is one thread of
\* straight-line code, lines 116-363, that blocks only in its external calls)
Fairness == \A r \in Runs : WF_vars(Step(r))

SpecLive == Init /\ [][Next]_vars /\ Fairness

\* requests handled concurrently (the threaded Flask server of line 367), with
\* a limit on the failures of the environment
InitConc == Start(ConcFaults, OwnTokens)

NextConc == \E r \in Runs : Receive(r) \/ Step(r)

SpecConc == InitConc /\ [][NextConc]_vars

(***************************************************************************)
(* What a run did, read from its log.                                      *)
(***************************************************************************)
Entries(me, op, arg) ==
    {i \in 1..Len(me.log) : me.log[i].op = op /\ me.log[i].arg = arg}

Made(me, op, arg, ok) == \E i \in Entries(me, op, arg) : me.log[i].ok = ok

StatusWrites(me, status) == Entries(me, "update_document", status)

BlobCalls(me) ==
    {i \in 1..Len(me.log) :
        me.log[i].op \in {"get_file", "get_file_download", "create_file"}}

\* the job record was fetched
Fetched(me) == me.log # <<>> /\ me.log[1] = Call("get_document", "", TRUE)

\* ... and has both asset references
HasRefs(me) == Fetched(me) /\ me.job_doc.faceId # NoId /\ me.job_doc.mediaId # NoId

\* the engine returned: its log entries
EngineExits(me) == Entries(me, "engine", "output") \cup Entries(me, "engine", "no output")

\* the engine exited with code 0 and the output file exists
EngineOk(me) == Made(me, "engine", "output", TRUE)

\* the engine exited non-zero, or exited zero without the output file
EngineFailed(me) == EngineExits(me) # {} /\ ~EngineOk(me)

\* the file with this id was created in the result bucket by this run
CreatedByRun(me, id) ==
    /\ id - Cardinality(InputIds) \in 1..Len(blobs)
    /\ blobs[id - Cardinality(InputIds)] = me.reqno

Returned(r) == run[r].pc = "done"

(***************************************************************************)
(* C1.                                                                     *)
(***************************************************************************)
\* C1: after a pipeline run returns, whatever its outcome, none of the staged
\* files the run created (source copy, target copy, engine output, preview GIF)
\* exists.  Stated for the runs in which no unlink was refused by the
\* filesystem.
C1_StagedFilesRemoved ==
    \A r \in Runs :
        (Returned(r) /\ ~Made(run[r], "unlink", SOURCE_DIR, FALSE)
                     /\ ~Made(run[r], "unlink", TARGET_DIR, FALSE)
                     /\ ~Made(run[r], "unlink", OUTPUT_DIR, FALSE))
            => run[r].created \cap files = {}

(***************************************************************************)
(* C2.                                                                     *)
(***************************************************************************)
\* the result upload, the preview generator or the completed write raised
RaisedAfterEngine(me) ==
    \/ Made(me, "create_file", "result", FALSE)
    \/ Made(me, "ffmpeg", "raised", FALSE)
    \/ Made(me, "update_document", "completed", FALSE)

\* the record is completed with a result id this run's upload created, which is
\* none of the input ids, and the 200 response carries it
CompletedWithFreshResult(me) ==
    LET doc == docs[me.job_id]
    IN  /\ doc.status = "completed"
        /\ CreatedByRun(me, doc.resultId)
        /\ doc.resultId \notin {me.job_doc.faceId, me.job_doc.mediaId}
        /\ doc.resultId # me.job_doc.resultId
        /\ me.resp.code = 200
        /\ me.resp.resultId = doc.resultId

\* C2 as claimed: for every job with both asset references whose engine run exits
\* 0 with the output file present, the run ends with the record completed,
\* carrying a fresh result id, and answers 200 with that id.
C2_EngineSuccessCompletes ==
    \A r \in Runs :
        (Returned(r) /\ HasRefs(run[r]) /\ EngineOk(run[r]))
            => CompletedWithFreshResult(run[r])

\* C2 as amended: ... unless the result upload, the preview generator or the
\* completed write raises; then the run answers 500, has attempted a failed
\* status write and has written no result id.
C2_EngineSuccessCompletesUnlessRaised ==
    \A r \in Runs :
        (Returned(r) /\ HasRefs(run[r]) /\ EngineOk(run[r]))
            => IF RaisedAfterEngine(run[r])
               THEN /\ run[r].resp.code = 500
                    /\ StatusWrites(run[r], "failed") # {}
                    /\ docs[run[r].job_id].resultId = run[r].job_doc.resultId
                    /\ docs[run[r].job_id].status # "completed"
               ELSE CompletedWithFreshResult(run[r])

C2_Witness ==
    \E r \in Runs :
        /\ Returned(r) /\ HasRefs(run[r]) /\ EngineOk(run[r])
        /\ ~RaisedAfterEngine(run[r])
        /\ run[r].resp.code = 200

(***************************************************************************)
(* C3.                                                                     *)
(***************************************************************************)
\* the stderr the engine run captured
CapturedStderr(me) == me.log[CHOOSE i \in EngineExits(me) : TRUE].text

\* the status of the record before the terminal write of the run
StatusBeforeTerminal(me) ==
    IF Made(me, "update_document", "processing", TRUE)
    THEN "processing" ELSE me.job_doc.status

\* no upload, no result id written, a 500 that carries the captured stderr
FailedWithoutUpload(me) ==
    /\ Entries(me, "create_file", "result") = {}
    /\ Entries(me, "create_file", "preview") = {}
    /\ docs[me.job_id].resultId = me.job_doc.resultId
    /\ me.resp.code = 500
    /\ CapturedStderr(me) # "" => me.resp.details = CapturedStderr(me)

\* C3 as claimed: when the engine exits non-zero, or exits zero without the
\* output file, the run uploads nothing, ends with the record in status failed,
\* writes no result id and answers 500 with the captured diagnostic text.
C3_EngineFailureFails ==
    \A r \in Runs :
        (Returned(r) /\ EngineFailed(run[r]))
            => /\ FailedWithoutUpload(run[r])
               /\ docs[run[r].job_id].status = "failed"

\* C3 as amended: ... the run attempts exactly one terminal status write, to
\* failed; the record ends in status failed when that write succeeds and keeps
\* its previous status when the write raises (the exception is swallowed); the
\* 500 carries the captured stderr, or "No stderr output." when it is empty.
C3_EngineFailureAttemptsFailed ==
    \A r \in Runs :
        (Returned(r) /\ EngineFailed(run[r]))
            => /\ FailedWithoutUpload(run[r])
               /\ run[r].resp.details = stderr_output(CapturedStderr(run[r]))
               /\ Cardinality(StatusWrites(run[r], "failed")) = 1
               /\ StatusWrites(run[r], "completed") = {}
               /\ docs[run[r].job_id].status =
                    IF Made(run[r], "update_document", "failed", TRUE)
                    THEN "failed" ELSE StatusBeforeTerminal(run[r])

C3_Witness ==
    \E r \in Runs :
        /\ Returned(r) /\ EngineFailed(run[r])
        /\ Made(run[r], "engine", "no output", TRUE)
        /\ docs[run[r].job_id].status = "failed"

(***************************************************************************)
(* C4.                                                                     *)
(***************************************************************************)
TerminalWrites(me) == StatusWrites(me, "completed") \cup StatusWrites(me, "failed")

\* C4 as claimed: on every exit path that starts after the job record was
\* fetched, the run emits exactly one update setting processing and exactly
\* one terminal update (completed or failed).
C4_OneProcessingOneTerminal ==
    \A r \in Runs :
        (Returned(r) /\ Fetched(run[r]))
            => /\ Cardinality(StatusWrites(run[r], "processing")) = 1
               /\ Cardinality(TerminalWrites(run[r])) = 1

\* C4 as amended: the run emits one processing update when both metadata
\* reads succeeded and none otherwise (missing asset references, metadata
\* fetch failure); it emits exactly one terminal update, except that a
\* completed write that raises is followed by one failed update.
C4_ProcessingAfterMetadataOneTerminal ==
    \A r \in Runs :
        (Returned(r) /\ Fetched(run[r]))
            => /\ Cardinality(StatusWrites(run[r], "processing")) =
                    IF Made(run[r], "get_file", "target", TRUE) THEN 1 ELSE 0
               /\ Cardinality(StatusWrites(run[r], "failed")) <= 1
               /\ Cardinality(StatusWrites(run[r], "completed")) <= 1
               /\ Cardinality(TerminalWrites(run[r])) =
                    IF Made(run[r], "update_document", "completed", FALSE) THEN 2 ELSE 1

C4_Witness ==
    \E r \in Runs :
        /\ Returned(r) /\ Fetched(run[r])
        /\ Made(run[r], "update_document", "completed", FALSE)
        /\ Cardinality(StatusWrites(run[r], "processing")) = 1
        /\ Cardinality(TerminalWrites(run[r])) = 2

(***************************************************************************)
(* C5.                                                                     *)
(***************************************************************************)
\* C5: every request whose secret is missing or differs from the configured
\* secret is answered with 401, and handling it reads and writes no job record,
\* calls no blob store and creates no staged file.  Stated for the requests
\* whose body parses to a non-empty object.
C5_BadSecretIs401 ==
    \A r \in Runs :
        (Returned(r) /\ run[r].data.kind = "object"
                     /\ run[r].data.secret # ENDPOINT_SECRET)
            => /\ run[r].resp.code = 401
               /\ run[r].log = <<>>
               /\ run[r].created = {}
               /\ docs = InitialDocs

(***************************************************************************)
(* C6.                                                                     *)
(***************************************************************************)
\* C6: when the fetched job record lacks the source or the target asset
\* reference, the run writes status failed to the record and returns 400; it
\* reads no metadata, downloads nothing, does not invoke the engine and writes
\* no processing status: the failed write is its only call after the fetch.
C6_MissingRefsFailWith400 ==
    \A r \in Runs :
        (Returned(r) /\ Fetched(run[r])
                     /\ (run[r].job_doc.faceId = NoId \/ run[r].job_doc.mediaId = NoId))
            => /\ run[r].resp.code = 400
               /\ Len(run[r].log) = 2
               /\ run[r].log[2].op = "update_document"
               /\ run[r].log[2].arg = "failed"
               /\ run[r].log[2].ok => docs[run[r].job_id].status = "failed"
               /\ run[r].created = {}
               /\ files = {}
               /\ blobs = <<>>

C6_Witness ==
    \E r \in Runs :
        /\ Returned(r) /\ Fetched(run[r])
        /\ run[r].job_doc.faceId # NoId /\ run[r].job_doc.mediaId = NoId
        /\ run[r].resp.code = 400
        /\ docs[run[r].job_id].status = "failed"

(***************************************************************************)
(* C7.                                                                     *)
(***************************************************************************)
FetchRaised(me) == me.log # <<>> /\ me.log[1] = Call("get_document", "", FALSE)

\* C7: when the job record cannot be established (not found: 404, any other
\* error of the read: 500), the run writes no status update, calls no blob
\* store and creates no staged file.
C7_FailedFetchHasNoEffect ==
    \A r \in Runs :
        (Returned(r) /\ FetchRaised(run[r]))
            => /\ run[r].resp.code \in {404, 500}
               /\ run[r].resp.code = 404 => run[r].job_id \notin DOMAIN docs
               /\ Len(run[r].log) = 1
               /\ run[r].created = {}
               /\ docs = InitialDocs
               /\ blobs = <<>>
               /\ files = {}

C7_Witness ==
    \E r \in Runs :
        /\ Returned(r) /\ FetchRaised(run[r])
        /\ run[r].resp.code = 404

(***************************************************************************)
(* C8.                                                                     *)
(***************************************************************************)
\* the failed status write is the last call of the run before its unlinks
FailedWriteIsLast(me) ==
    \E i \in StatusWrites(me, "failed") :
        \A j \in (i + 1)..Len(me.log) : me.log[j].op = "unlink"

\* C8: once the job record has been fetched with both asset references, every
\* run that does not return 200 attempts one status update to failed before
\* returning and returns 500, also when that status write raises.
C8_FailureMarksFailedAnd500 ==
    \A r \in Runs :
        (Returned(r) /\ HasRefs(run[r]) /\ run[r].resp.code # 200)
            => /\ run[r].resp.code = 500
               /\ Cardinality(StatusWrites(run[r], "failed")) = 1
               /\ FailedWriteIsLast(run[r])

C8_Witness ==
    \E r \in Runs :
        /\ Returned(r) /\ HasRefs(run[r])
        /\ Made(run[r], "create_file", "result", FALSE)
        /\ Made(run[r], "update_document", "failed", FALSE)
        /\ run[r].resp.code = 500

(***************************************************************************)
(* C9.                                                                     *)
(***************************************************************************)
\* the preview step failed: the tool is absent, or it exited non-zero, or it
\* raised while running, or the upload of the preview failed
PreviewFailed(me) ==
    \/ is_video_file(me.output_path.name) /\ Entries(me, "ffmpeg", "returned") = {}
                                           /\ Entries(me, "ffmpeg", "raised") = {}
    \/ Made(me, "ffmpeg", "returned", FALSE)
    \/ Made(me, "ffmpeg", "raised", FALSE)
    \/ Made(me, "create_file", "preview", FALSE)

\* C9: a failure in the preview step never changes the job outcome: when the
\* engine succeeded and the result upload succeeded, the run still ends with
\* status completed and a 200 response without a preview identifier.  Stated
\* for the runs whose completed write did not raise.
C9_PreviewFailureIsNotFatal ==
    \A r \in Runs :
        (Returned(r) /\ EngineOk(run[r])
                     /\ Made(run[r], "create_file", "result", TRUE)
                     /\ PreviewFailed(run[r])
                     /\ ~Made(run[r], "update_document", "completed", FALSE))
            => /\ run[r].resp.code = 200
               /\ run[r].resp.previewId = NoId
               /\ docs[run[r].job_id].status = "completed"

(***************************************************************************)
(* C10.                                                                    *)
(***************************************************************************)
StagedPaths(me) ==
    {me.face_path, me.media_path, me.output_path, me.preview_path} \ {NoPath}

\* C10: for any interleaving of concurrent runs with distinct job identifiers,
\* the sets of staged file paths (source, target, output, preview) used by the
\* runs are pairwise disjoint.
C10_StagedPathsDisjoint ==
    \A r1 \in Runs, r2 \in Runs :
        (r1 # r2 /\ run[r1].job_id # run[r2].job_id)
            => StagedPaths(run[r1]) \cap StagedPaths(run[r2]) = {}

(***************************************************************************)
(* C11.                                                                    *)
(***************************************************************************)
\* the status writes of a run that took effect, by position in its log
EffectiveWrites(me, status) == {i \in StatusWrites(me, status) : me.log[i].ok}

EffectiveTerminalWrites(me) ==
    EffectiveWrites(me, "completed") \cup EffectiveWrites(me, "failed")

AllStatusWrites(me) == Entries(me, "update_document", "processing") \cup TerminalWrites(me)

\* C11: within a single run the status writes are monotonic: processing is
\* written at most once, at most one of completed/failed takes effect as the
\* terminal value, no status write of the run follows the terminal write that
\* took effect, and no processing write follows any terminal write; the
\* record holds the terminal value that took effect.
C11_StatusWritesMonotonic ==
    \A r \in Runs :
        LET me == run[r]
        IN  /\ Cardinality(StatusWrites(me, "processing")) <= 1
            /\ Cardinality(EffectiveTerminalWrites(me)) <= 1
            /\ \A i \in EffectiveTerminalWrites(me) :
                 /\ \A j \in AllStatusWrites(me) : j <= i
                 /\ docs[me.job_id].status = me.log[i].arg
            /\ \A i \in TerminalWrites(me), j \in StatusWrites(me, "processing") : j < i

C11_Witness ==
    \E r \in Runs :
        /\ Returned(r)
        /\ Made(run[r], "update_document", "processing", TRUE)
        /\ Made(run[r], "update_document", "completed", FALSE)
        /\ Made(run[r], "update_document", "failed", TRUE)
        /\ docs[run[r].job_id].status = "failed"

(***************************************************************************)
(* C12.                                                                    *)
(***************************************************************************)
\* the names of the staged input files have been assigned (lines 202-205)
StagingBegun(me) == me.face_path # NoPath

\* the run leaves its finally block
CleanupStep(r) == run[r].pc = "cleanup" /\ run'[r].pc = "done"

\* every listed path that is set and exists has its unlink attempted: the path
\* is gone when the unlink returned and is still there when it raised
EachPathUnlinked(r) ==
    \A i \in 1..Len(files_to_delete(run[r])) :
        LET p == files_to_delete(run[r])[i]
        IN  (p # NoPath /\ p \in files)
                => /\ Entries(run'[r], "unlink", p.dir) # {}
                   /\ p \notin files' <=> Made(run'[r], "unlink", p.dir, TRUE)
                   /\ p \in files' <=> Made(run'[r], "unlink", p.dir, FALSE)

\* C12: cleanup runs on every exit path once staging has begun; it attempts to
\* delete each recorded source, target and output path; a path that does not
\* exist or whose deletion fails does not stop the deletion of the remaining
\* paths, and cleanup changes neither the response already computed nor the
\* job records.
C12_CleanupOnEveryExit ==
    [][\A r \in Runs :
          /\ (StagingBegun(run[r]) /\ run[r].pc # "done" /\ run'[r].pc = "done")
                => CleanupStep(r)
          /\ CleanupStep(r)
                => /\ EachPathUnlinked(r)
                   /\ run'[r].resp = run[r].resp
                   /\ docs' = docs
                   /\ blobs' = blobs]_vars

C12_Witness ==
    \E r \in Runs :
        /\ Returned(r)
        /\ Made(run[r], "unlink", SOURCE_DIR, FALSE)
        /\ Made(run[r], "unlink", TARGET_DIR, TRUE)
        /\ Entries(run[r], "unlink", OUTPUT_DIR) = {}
        /\ run[r].output_path # NoPath
        /\ run[r].face_path \in files
        /\ run[r].media_path \notin files
        /\ docs[run[r].job_id].status = "failed"

(***************************************************************************)
(* C13.                                                                    *)
(***************************************************************************)
\* the place of an external call in the order of the steps
StepRank(e) ==
    CASE e.op = "get_document" -> 0
      [] e.op = "get_file" /\ e.arg = "source" -> 1
      [] e.op = "get_file" /\ e.arg = "target" -> 2
      [] e.op = "update_document" /\ e.arg = "processing" -> 3
      [] e.op = "get_file_download" /\ e.arg = "source" -> 4
      [] e.op = "write" /\ e.arg = "source" -> 5
      [] e.op = "get_file_download" /\ e.arg = "target" -> 6
      [] e.op = "write" /\ e.arg = "target" -> 7
      [] e.op = "engine" -> 8
      [] e.op = "create_file" /\ e.arg = "result" -> 9
      [] e.op = "update_document" /\ e.arg = "completed" -> 12
      [] e.op = "update_document" /\ e.arg = "failed" -> 13
      [] e.op = "unlink" /\ e.arg = SOURCE_DIR -> 14
      [] e.op = "unlink" /\ e.arg = TARGET_DIR -> 15
      [] e.op = "unlink" /\ e.arg = OUTPUT_DIR -> 16
      [] OTHER -> 10

\* the calls of the preview step lie between the result upload and the
\* terminal write; they are not ordered by this claim
Ordered(me) ==
    \A i \in 1..Len(me.log), j \in 1..Len(me.log) :
        (i < j /\ StepRank(me.log[i]) # 10 /\ StepRank(me.log[j]) # 10)
            => StepRank(me.log[i]) < StepRank(me.log[j])

\* a call of this kind with this outcome was made before position i
MadeBefore(me, i, op, arg, ok) ==
    \E j \in Entries(me, op, arg) : j < i /\ me.log[j].ok = ok

\* C13: the steps of a run occur in the order metadata reads, processing
\* status write, source download, target download, engine invocation, result
\* upload, terminal status write: no download starts before both metadata
\* reads succeeded and the processing write was attempted, the engine is
\* invoked only after both staged input files were written, and a result
\* upload happens only after the engine exited 0 with the output file present.
C13_StepsInOrder ==
    \A r \in Runs :
        LET me == run[r]
        IN  /\ Ordered(me)
            /\ \A i \in 1..Len(me.log) :
                 /\ me.log[i].op = "get_file_download"
                      => /\ MadeBefore(me, i, "get_file", "source", TRUE)
                         /\ MadeBefore(me, i, "get_file", "target", TRUE)
                         /\ \E ok \in BOOLEAN :
                              MadeBefore(me, i, "update_document", "processing", ok)
                 /\ me.log[i].op = "engine"
                      => /\ MadeBefore(me, i, "write", "source", TRUE)
                         /\ MadeBefore(me, i, "write", "target", TRUE)
                         /\ me.face_path \in me.created
                         /\ me.media_path \in me.created
                 /\ (me.log[i].op = "create_file" /\ me.log[i].arg = "result")
                      => MadeBefore(me, i, "engine", "output", TRUE)
                 /\ (me.log[i].op = "update_document" /\ me.log[i].arg = "completed")
                      => MadeBefore(me, i, "create_file", "result", TRUE)

C13_Witness ==
    \E r \in Runs :
        /\ Returned(r)
        /\ Len(run[r].log) >= 10
        /\ Made(run[r], "engine", "output", TRUE)
        /\ Made(run[r], "create_file", "result", TRUE)
        /\ Made(run[r], "update_document", "completed", TRUE)
        /\ Made(run[r], "unlink", OUTPUT_DIR, TRUE)

(***************************************************************************)
(* C14.                                                                    *)
(***************************************************************************)
ProcessingWriteRaised(me) == Made(me, "update_document", "processing", FALSE)

\* the calls whose outcome ends a run in failure
FatalCalls(me) ==
    {i \in 1..Len(me.log) :
        /\ me.log[i].op \notin {"unlink", "update_document"}
        /\ \/ ~me.log[i].ok /\ ~(me.log[i].op = "ffmpeg" /\ me.log[i].arg = "returned")
                            /\ ~(me.log[i].op = "create_file" /\ me.log[i].arg = "preview")
           \/ me.log[i].op = "engine" /\ me.log[i].arg # "output"}
    \cup {i \in StatusWrites(me, "completed") : ~me.log[i].ok}

\* C14: a failure of the processing status write does not abort the run: the
\* next step is the source download with the staged names assigned, the run
\* fails only when some other call fails, and when the engine succeeds and
\* nothing after it raises the run ends with status completed and a 200.
C14_ProcessingWriteFailureIgnored ==
    \A r \in Runs :
        LET me == run[r]
        IN  ProcessingWriteRaised(me) =>
                \A i \in StatusWrites(me, "processing") :
                    /\ StagingBegun(me)
                    /\ IF Len(me.log) = i
                       THEN me.pc = "downloadSource" /\ me.resp = NoResp
                       ELSE me.log[i + 1].op = "get_file_download"
                            /\ me.log[i + 1].arg = "source"
                    /\ EffectiveTerminalWrites(me) = {}
                            => docs[me.job_id].status = me.job_doc.status
                    /\ StatusWrites(me, "failed") # {} => FatalCalls(me) # {}
                    /\ (Returned(r) /\ FatalCalls(me) = {})
                            => /\ EngineOk(me)
                               /\ CompletedWithFreshResult(me)

C14_Witness ==
    \E r \in Runs :
        /\ Returned(r)
        /\ ProcessingWriteRaised(run[r])
        /\ FatalCalls(run[r]) = {}
        /\ run[r].resp.code = 200
        /\ docs[run[r].job_id].status = "completed"

(***************************************************************************)
(* C15.                                                                    *)
(***************************************************************************)
InFlight(me) == me.pc \notin {"idle", "done"}

\* C15: under any interleaving of concurrent runs (same or different job
\* ids), the cleanup of a run deletes only staged paths that this run itself
\* created; a staged file of another in-flight run is never removed by it.
C15_CleanupDeletesOwnFiles ==
    [][\A r \in Runs :
          CleanupStep(r) =>
              \A p \in files \ files' :
                  /\ p \in run[r].created
                  /\ \A q \in Runs \ {r} : InFlight(run[q]) => p \notin run[q].created]_vars

(***************************************************************************)
(* C16.                                                                    *)
(***************************************************************************)
\* the runs of the preview generator, by position in the log
PreviewRuns(me) == Entries(me, "ffmpeg", "returned") \cup Entries(me, "ffmpeg", "raised")

Uploads(me) == Entries(me, "create_file", "result") \cup Entries(me, "create_file", "preview")

\* C16: on engine success the preview generator, when it runs, runs before
\* the produced artifact is uploaded: no result asset has been created in the
\* blob store at the moment preview generation starts, and the result and
\* preview uploads both follow it.
C16_PreviewBeforeUploads ==
    \A r \in Runs :
        /\ run[r].pc = "createPreview"
              => /\ run[r].result_id = NoId
                 /\ \A k \in 1..Len(blobs) : blobs[k] # run[r].reqno
        /\ \A i \in PreviewRuns(run[r]), j \in Uploads(run[r]) : i < j

(***************************************************************************)
(* C17.                                                                    *)
(***************************************************************************)
\* the run was invoked for a job whose record it found completed
PriorCompleted(me) == Fetched(me) /\ me.job_doc.status = "completed"

\* the step appends a status write to the log of run r: the write
StatusWriteStep(r) ==
    IF Len(run'[r].log) = Len(run[r].log) + 1
       /\ run'[r].log[Len(run'[r].log)].op = "update_document"
    THEN {run'[r].log[Len(run'[r].log)]}
    ELSE {}

\* C17: the pipeline does not guard against duplicate invocation: a run
\* invoked for a job id whose record is already completed is accepted (the
\* fetch is followed by the metadata reads), downloads both assets and runs
\* the engine itself, and each of its status writes that returns overwrites
\* the record's status: with processing before any terminal write, then with
\* the terminal value.
C17_DuplicateInvocationOverwrites ==
    [][\A r \in Runs :
          PriorCompleted(run'[r]) =>
              /\ run[r].pc = "fetch" => run'[r].pc = "getSourceMeta"
              /\ run'[r].pc = "done" => Len(run'[r].log) > 1
              /\ \A i \in Entries(run'[r], "engine", "output")
                        \cup Entries(run'[r], "engine", "no output") :
                    /\ MadeBefore(run'[r], i, "write", "source", TRUE)
                    /\ MadeBefore(run'[r], i, "write", "target", TRUE)
              /\ \A w \in StatusWriteStep(r) :
                    /\ w.arg = "processing" => TerminalWrites(run[r]) = {}
                    /\ w.ok => docs'[run[r].job_id].status = w.arg]_vars

C17_Witness ==
    \E r \in Runs :
        /\ Returned(r)
        /\ PriorCompleted(run[r])
        /\ Made(run[r], "update_document", "processing", TRUE)
        /\ Made(run[r], "engine", "no output", TRUE)
        /\ Made(run[r], "update_document", "failed", TRUE)
        /\ docs[run[r].job_id].status = "failed"
        /\ docs[run[r].job_id].resultId # NoId

(***************************************************************************)
(* C18.                                                                    *)
(***************************************************************************)
\* no external call is made twice by a run: one call per operation and
\* object, one run of the engine, one run of the preview generator
NoRetry(me) ==
    \A i \in 1..Len(me.log), j \in 1..Len(me.log) :
        (i < j /\ me.log[i].op = me.log[j].op)
            => /\ me.log[i].op \notin {"engine", "ffmpeg", "get_document"}
               /\ me.log[i].arg # me.log[j].arg

\* C18: when every external call eventually returns or raises, every run
\* that starts eventually returns a response, and every run that got past the
\* job fetch (it reached the metadata reads) eventually executes its cleanup
\* step; no call is repeated on any path.
C18_EveryRunReturns ==
    /\ [](\A r \in Runs : NoRetry(run[r]))
    /\ \A r \in Runs : InFlight(run[r]) ~> Returned(r)
    /\ \A r \in Runs : (run[r].pc = "getSourceMeta") ~> (run[r].pc = "cleanup")

C18_Witness ==
    \E r \in Runs :
        /\ Returned(r)
        /\ HasRefs(run[r])
        /\ Made(run[r], "get_file", "source", FALSE)
        /\ Made(run[r], "update_document", "failed", FALSE)
        /\ run[r].face_path = NoPath
        /\ run[r].resp.code = 500

(***************************************************************************)
(* C19.                                                                    *)
(***************************************************************************)
\* C19: a 200 response is returned only if the update setting status
\* completed with the returned result identifier was written to the job record
\* without error in that run; if that write raises, the run answers 500 and
\* attempts a failed status write after it, never a 200.
C19_SuccessOnlyAfterCompletedWrite ==
    \A r \in Runs :
        LET me == run[r]
        IN  /\ me.resp.code = 200
                => /\ EffectiveWrites(me, "completed") # {}
                   /\ me.resp.resultId = me.result_id
                   /\ me.resp.resultId # NoId
                   /\ docs[me.job_id].status = "completed"
                   /\ docs[me.job_id].resultId = me.resp.resultId
            /\ Made(me, "update_document", "completed", FALSE)
                => /\ me.resp.code = 500
                   /\ me.pc \in {"markFailed", "cleanup", "done"}
                   /\ me.pc # "markFailed"
                        => \E i \in StatusWrites(me, "completed"),
                              j \in StatusWrites(me, "failed") : i < j

C19_Witness ==
    \E r \in Runs :
        /\ Returned(r)
        /\ CreatedByRun(run[r], run[r].result_id)
        /\ Made(run[r], "update_document", "completed", FALSE)
        /\ StatusWrites(run[r], "failed") # {}
        /\ run[r].resp.code = 500
        /\ docs[run[r].job_id].resultId = NoId

(***************************************************************************)
(* C20.                                                                    *)
(***************************************************************************)
\* the fields of the record other than its status
Payload(doc) == <<doc.faceId, doc.mediaId, doc.resultId, doc.mediaPreviewId>>

\* C20: a status update to processing or failed writes only the status field
\* of the job record: the result identifier and the preview identifier (and
\* every other record) are left unchanged by it, and these two fields change
\* only in the step of the update that sets status completed on that record.
C20_StatusWritesOnlyStatus ==
    [][/\ \A r \in Runs : \A w \in StatusWriteStep(r) :
            w.arg \in {"processing", "failed"}
                => /\ DOMAIN docs' = DOMAIN docs
                   /\ \A j \in DOMAIN docs :
                        /\ Payload(docs'[j]) = Payload(docs[j])
                        /\ docs'[j].status =
                             IF w.ok /\ j = run[r].job_id THEN w.arg ELSE docs[j].status
       /\ \A j \in DOMAIN docs :
            Payload(docs'[j]) # Payload(docs[j])
                => \E r \in Runs : \E w \in StatusWriteStep(r) :
                     /\ w.arg = "completed" /\ w.ok
                     /\ run[r].job_id = j
                     /\ docs'[j].resultId = run[r].result_id
                     /\ docs'[j].status = "completed"]_vars

C20_Witness ==
    \E r \in Runs :
        /\ PriorCompleted(run[r])
        /\ run[r].pc = "downloadSource"
        /\ Made(run[r], "update_document", "processing", TRUE)
        /\ docs[run[r].job_id].status = "processing"
        /\ docs[run[r].job_id].resultId = run[r].job_doc.resultId
        /\ docs[run[r].job_id].resultId # NoId

====
